---- MODULE Spec2Model ----
(***************************************************************************)
(* Rusty Password Generator: the generate run of main.rs / generator/mod.rs *)
(* (set_length, create_charset, compute_password, compute_time_to_crack,   *)
(* the cast to u64 in main) and the analyze entry point of utils.rs.       *)
(*                                                                          *)
(* Characters are one-character strings, a String or Vec<char> is a        *)
(* sequence of them.  u128 / u64 values are little-endian sequences of     *)
(* 16-bit limbs, because the values exceed the model checker's integers.   *)
(***************************************************************************)
EXTENDS Integers, Sequences, FiniteSets, TLC

VARIABLES
    command,        \* subcommand of the run: "generate" or "analyze"
    args,           \* parsed arguments: length and the three category flags
    analyzeInput,   \* AnalyzeArgs.password (sequence of characters)
    pc,             \* position of the run
    length,         \* validated length (main.rs `length`)
    charset,        \* String returned by create_charset
    rng,            \* state of the random number generator
    pool,           \* Vec<char> shuffled in compute_password
    password,       \* password built so far
    i,              \* iterations of the generation loop already done
    nt,             \* u128 accumulator of compute_time_to_crack
    ti,             \* loop variable of compute_time_to_crack
    wrapped,        \* history: a u128 operation wrapped around silently
    cracking_speed, \* u128 returned by compute_time_to_crack
    cs,             \* u64 obtained by `cracking_speed as u64`
    report,         \* String returned by analyze_password, "" if none
    panicMsg        \* message of the panic that ended the run, "" if none

vars == <<command, args, analyzeInput, pc, length, charset, rng, pool,
          password, i, nt, ti, wrapped, cracking_speed, cs, report, panicMsg>>

----------------------------------------------------------------------------
(* Bounds of the model *)

\* requested lengths up to MIN_LENGTH + MaxOver are explored (plus 0, the
\* values around MAX_LENGTH and a huge one, see RequestedLengths)
MaxOver == 1

\* seeds 0..MaxSeed of the random number generator are explored
MaxSeed == 1

----------------------------------------------------------------------------
(* Constants of the program *)

DEFAULT_LENGTH == 16

MIN_LENGTH == 8

MAX_LENGTH == 128

CHARS ==
    << "a", "b", "c", "d", "e", "f", "g", "h", "i", "j", "k", "l", "m",
       "n", "o", "p", "q", "r", "s", "t", "u", "v", "w", "x", "y", "z" >>

UPPERCASE_CHARS ==
    << "A", "B", "C", "D", "E", "F", "G", "H", "I", "J", "K", "L", "M",
       "N", "O", "P", "Q", "R", "S", "T", "U", "V", "W", "X", "Y", "Z" >>

NUMBERS == << "0", "1", "2", "3", "4", "5", "6", "7", "8", "9" >>

SPECIAL_CHARS ==
    << "!", "@", "#", "$", "%", "^", "&", "*", "_", "-", "+", "=", "<", ">", "?" >>

\* Rust's `^` on integers is bitwise exclusive or
RECURSIVE BitXor(_, _)
BitXor(a, b) ==
    IF a = 0 /\ b = 0 THEN 0
    ELSE (((a % 2) + (b % 2)) % 2) + 2 * BitXor(a \div 2, b \div 2)

\* main.rs: const BCRYPT_CRACKING_SPEED: u128 = 9*(10^3);
BCRYPT_CRACKING_SPEED == 9 * BitXor(10, 3)

\* utils.rs: pub const BCRYPT_CRACKING_SPEED: u128 = 9000;
utils_BCRYPT_CRACKING_SPEED == 9000

----------------------------------------------------------------------------
(* Sequences of characters *)

Range(s) == { s[k] : k \in 1..Len(s) }

----------------------------------------------------------------------------
(* Unsigned integers wider than the checker's: little-endian 16-bit limbs *)

LimbBase == 2^16

U128Limbs == 128 \div 16

U64Limbs == 64 \div 16

\* the limbs of a small non-negative integer, padded to w limbs
RECURSIVE ToLimbs(_, _)
ToLimbs(x, w) ==
    IF w = 0 THEN << >> ELSE <<x % LimbBase>> \o ToLimbs(x \div LimbBase, w - 1)

\* a without its high zero limbs
RECURSIVE Norm(_)
Norm(a) ==
    IF Len(a) = 0 THEN a
    ELSE IF a[Len(a)] = 0 THEN Norm(SubSeq(a, 1, Len(a) - 1)) ELSE a

IsZero(a) == \A k \in 1..Len(a) : a[k] = 0

\* exact a * m for a small m: one limb more than a
RECURSIVE MulSmallFrom(_, _, _, _)
MulSmallFrom(a, m, k, carry) ==
    IF k > Len(a) THEN <<carry>>
    ELSE LET t == a[k] * m + carry
         IN  <<t % LimbBase>> \o MulSmallFrom(a, m, k + 1, t \div LimbBase)

MulSmall(a, m) == MulSmallFrom(a, m, 1, 0)

\* exact a + b for a, b of the same number of limbs: one limb more
RECURSIVE AddFrom(_, _, _, _)
AddFrom(a, b, k, carry) ==
    IF k > Len(a) THEN <<carry>>
    ELSE LET t == a[k] + b[k] + carry
         IN  <<t % LimbBase>> \o AddFrom(a, b, k + 1, t \div LimbBase)

AddExact(a, b) == AddFrom(a, b, 1, 0)

\* floor(a / d) for a small d, from the high limb down; as many limbs as a
RECURSIVE DivSmallFrom(_, _, _, _)
DivSmallFrom(a, d, k, rem) ==
    IF k = 0 THEN << >>
    ELSE LET t == rem * LimbBase + a[k]
         IN  DivSmallFrom(a, d, k - 1, t % d) \o <<t \div d>>

DivSmall(a, d) == DivSmallFrom(a, d, Len(a), 0)

\* u128 multiplication by a small factor: the wrapped value and whether
\* the exact product exceeds 128 bits
MulU128(a, m) ==
    LET p == MulSmall(a, m)
    IN  [val |-> SubSeq(p, 1, U128Limbs), ovf |-> p[U128Limbs + 1] # 0]

\* u128 addition: the wrapped value and whether the exact sum exceeds 128 bits
AddU128(a, b) ==
    LET s == AddExact(a, b)
    IN  [val |-> SubSeq(s, 1, U128Limbs), ovf |-> s[U128Limbs + 1] # 0]

\* one multiplication of the accumulator of pow by the base
PowStep(acc, base) ==
    LET p == MulU128(acc.val, base)
    IN  [val |-> p.val, ovf |-> acc.ovf \/ p.ovf]

\* exp multiplications of acc by base (the recursion halves exp, to keep
\* the evaluation shallow; zero stays zero)
RECURSIVE PowFrom(_, _, _)
PowFrom(acc, base, exp) ==
    IF exp = 0 \/ IsZero(acc.val) THEN acc
    ELSE IF exp = 1 THEN PowStep(acc, base)
    ELSE PowFrom(PowFrom(acc, base, exp \div 2), base, exp - (exp \div 2))

\* u128::pow(base, exp) for a small base: the wrapped value and whether
\* the exact power exceeds 128 bits (once it does, it does for every
\* larger exponent)
PowU128(base, exp) ==
    PowFrom([val |-> ToLimbs(1, U128Limbs), ovf |-> FALSE], base, exp)

\* `x as u64` of a u128: the low 64 bits
AsU64(x) == SubSeq(x, 1, U64Limbs)

----------------------------------------------------------------------------
(* The random number generator (rand::rng(), external crate): a stream    *)
(* fixed by its seed.  The stand-in is a 16-bit linear congruential       *)
(* generator; the seed is the nondeterministic input.                     *)

Seeds == 0..MaxSeed

RngNext(x) == (x * 25173 + 13849) % LimbBase

\* rng.random_range(0..n) drawn from generator state x (already advanced)
RandomRange(x, n) == (x * n) \div LimbBase

\* mutant of Swap: the second assignment of the exchange is lost
Swap_overwrite(v, a, b) == [v EXCEPT ![a] = v[b]]

Swap(v, a, b) == [v EXCEPT ![a] = v[b], ![b] = v[a]]

\* one step of the shuffle: a draw in 0..=k (0-based) picks the element
\* swapped into position k.  Positions are 1-based here; st is the vector
\* and the generator state.
ShuffleStep(st, k) ==
    LET x1 == RngNext(st.rng)
        j  == 1 + RandomRange(x1, k)
    IN  [vec |-> Swap(st.vec, k, j), rng |-> x1]

\* the steps for positions hi, hi - 1, ..., lo in that order (the recursion
\* halves the range, to keep the evaluation shallow); positions beyond the
\* vector are not touched
RECURSIVE ShuffleRange(_, _, _)
ShuffleRange(st, lo, hi) ==
    IF hi < lo \/ Len(st.vec) < hi THEN st
    ELSE IF hi = lo THEN ShuffleStep(st, hi)
    ELSE LET mid == (lo + hi) \div 2
         IN  ShuffleRange(ShuffleRange(st, mid + 1, hi), lo, mid)

\* SliceRandom::shuffle: Fisher-Yates from the last position down to the
\* second
shuffle(v, x) == ShuffleRange([vec |-> v, rng |-> x], 2, Len(v))

\* IndexedRandom::choose: None on an empty slice, else the element at a
\* uniformly drawn index
choose(v, x) ==
    IF Len(v) = 0 THEN [some |-> FALSE, rng |-> x]
    ELSE LET x1 == RngNext(x)
         IN  [some |-> TRUE, val |-> v[1 + RandomRange(x1, Len(v))], rng |-> x1]

----------------------------------------------------------------------------
(* The functions of the generator *)

\* mutant of set_length: an out-of-range request is clamped to the nearest
\* bound
set_length_clamped(a) ==
    IF a.length < MIN_LENGTH THEN MIN_LENGTH
    ELSE IF a.length > MAX_LENGTH THEN MAX_LENGTH
    ELSE a.length

\* set_length: the requested length if within [MIN_LENGTH, MAX_LENGTH],
\* else DEFAULT_LENGTH
set_length(a) ==
    IF a.length < MIN_LENGTH \/ a.length > MAX_LENGTH
    THEN DEFAULT_LENGTH
    ELSE a.length

\* mutant of create_charset: the digits are appended before the special
\* symbols
create_charset_numbers_first(a) ==
    CHARS
        \o (IF a.uppercase_chars THEN UPPERCASE_CHARS ELSE << >>)
        \o (IF a.numbers THEN NUMBERS ELSE << >>)
        \o (IF a.special_chars THEN SPECIAL_CHARS ELSE << >>)

\* mutant of create_charset: the charset starts empty instead of with the
\* lowercase letters
create_charset_no_base(a) ==
    (IF a.uppercase_chars THEN UPPERCASE_CHARS ELSE << >>)
        \o (IF a.special_chars THEN SPECIAL_CHARS ELSE << >>)
        \o (IF a.numbers THEN NUMBERS ELSE << >>)

\* create_charset: lowercase, then uppercase / special / numbers if requested
create_charset(a) ==
    CHARS
        \o (IF a.uppercase_chars THEN UPPERCASE_CHARS ELSE << >>)
        \o (IF a.special_chars THEN SPECIAL_CHARS ELSE << >>)
        \o (IF a.numbers THEN NUMBERS ELSE << >>)

\* mutant of GenLoopContinues: the range is inclusive
GenLoopContinues_inclusive(done, len) == done <= len

\* `for _ in 0..length`: the loop body runs while fewer than `length`
\* iterations are done
GenLoopContinues(done, len) == done < len

\* `for i in 1..=pwd_length`
TtcLoopContinues(idx, len) == idx <= len

----------------------------------------------------------------------------
(* Inputs *)

\* u32 values of --length: the small ones, those around MAX_LENGTH, and a
\* huge one (the length is only ever compared)
RequestedLengths ==
    {0} \cup ((MIN_LENGTH - 1)..(MIN_LENGTH + MaxOver))
        \cup {MAX_LENGTH, MAX_LENGTH + 1, 2147483647}

Args ==
    [length : RequestedLengths, uppercase_chars : BOOLEAN,
     special_chars : BOOLEAN, numbers : BOOLEAN]

DefaultArgs ==
    [length |-> DEFAULT_LENGTH, uppercase_chars |-> FALSE,
     special_chars |-> FALSE, numbers |-> FALSE]

\* passwords given to `analyze`
AnalyzeInputs ==
    { << >>, <<"a">>, <<"a", "b", "c">>, <<"Z", "9">>,
      <<"A", "b", "c", "1", "2", "3", "!", "@">> }

----------------------------------------------------------------------------
(* The run *)

Init ==
    /\ command \in {"generate", "analyze"}
    /\ IF command = "generate"
       THEN /\ args \in Args
            /\ analyzeInput = << >>
            /\ pc = "set_length"
       ELSE /\ args = DefaultArgs
            /\ analyzeInput \in AnalyzeInputs
            /\ pc = "analyze_password"
    /\ length = 0
    /\ charset = << >>
    /\ rng = 0
    /\ pool = << >>
    /\ password = << >>
    /\ i = 0
    /\ nt = ToLimbs(0, U128Limbs)
    /\ ti = 0
    /\ wrapped = FALSE
    /\ cracking_speed = ToLimbs(0, U128Limbs)
    /\ cs = ToLimbs(0, U64Limbs)
    /\ report = ""
    /\ panicMsg = ""

\* main: let length = set_length(&args);
SetLength ==
    /\ pc = "set_length"
    /\ length' = set_length(args)
    /\ pc' = "create_charset"
    /\ UNCHANGED <<command, args, analyzeInput, charset, rng, pool,
                   password, i, nt, ti, wrapped, cracking_speed, cs, panicMsg,
                   report>>

\* main: let charset = create_charset(&args);
CreateCharset ==
    /\ pc = "create_charset"
    /\ charset' = create_charset(args)
    /\ pc' = "compute_password"
    /\ UNCHANGED <<command, args, analyzeInput, length, rng, pool,
                   password, i, nt, ti, wrapped, cracking_speed, cs, panicMsg,
                   report>>

\* compute_password up to its loop: the generator is created (seeded from
\* the operating system), the password is empty, the charset is collected
\* into a vector
ComputePasswordEntry ==
    /\ pc = "compute_password"
    /\ \E seed \in Seeds : rng' = seed
    /\ password' = << >>
    /\ pool' = charset
    /\ i' = 0
    /\ pc' = "gen_loop"
    /\ UNCHANGED <<command, args, analyzeInput, length, charset,
                   nt, ti, wrapped, cracking_speed, cs, panicMsg,
                   report>>

\* one iteration of the generation loop: shuffle, choose, push; the
\* expect / unwrap panics when choose returns None
GenIteration ==
    /\ pc = "gen_loop"
    /\ GenLoopContinues(i, length)
    /\ LET sh == shuffle(pool, rng)
           ch == choose(sh.vec, sh.rng)
       IN  /\ pool' = sh.vec
           /\ rng' = ch.rng
           /\ IF ch.some
              THEN /\ password' = Append(password, ch.val)
                   /\ i' = i + 1
                   /\ pc' = "gen_loop"
                   /\ panicMsg' = panicMsg
              ELSE /\ password' = password
                   /\ i' = i
                   /\ pc' = "panic"
                   /\ panicMsg' = "Charset vuoto"
    /\ UNCHANGED <<command, args, analyzeInput, length, charset,
                   nt, ti, wrapped, cracking_speed, cs,
                   report>>

\* the generation loop is over: compute_password returns the password
GenReturn ==
    /\ pc = "gen_loop"
    /\ ~GenLoopContinues(i, length)
    /\ pc' = "compute_time_to_crack"
    /\ UNCHANGED <<command, args, analyzeInput, length, charset, rng,
                   pool, password, i, nt, ti, wrapped, cracking_speed, cs,
                   panicMsg,
                   report>>

\* compute_time_to_crack(charset.chars().count() as u32, length) up to its loop
TtcEntry ==
    /\ pc = "compute_time_to_crack"
    /\ nt' = ToLimbs(0, U128Limbs)
    /\ ti' = 1
    /\ pc' = "ttc_loop"
    /\ UNCHANGED <<command, args, analyzeInput, length, charset, rng,
                   pool, password, i, wrapped, cracking_speed, cs, panicMsg,
                   report>>

\* one iteration: nt += charset_length.pow(i as u32).  An overflowing
\* operation panics in a build with overflow checks (debug) and wraps around
\* silently in a build without them (release); a run that has already
\* wrapped around is of the second kind.
TtcIteration ==
    /\ pc = "ttc_loop"
    /\ TtcLoopContinues(ti, length)
    /\ LET p == PowU128(Len(charset), ti)
           s == AddU128(nt, p.val)
       IN  \/ /\ p.ovf \/ s.ovf
              /\ ~wrapped
              /\ pc' = "panic"
              /\ panicMsg' = IF p.ovf THEN "attempt to multiply with overflow"
                                      ELSE "attempt to add with overflow"
              /\ UNCHANGED <<nt, ti, wrapped>>
           \/ /\ nt' = s.val
              /\ ti' = ti + 1
              /\ wrapped' = (wrapped \/ p.ovf \/ s.ovf)
              /\ UNCHANGED <<pc, panicMsg>>
    /\ UNCHANGED <<command, args, analyzeInput, length, charset, rng,
                   pool, password, i, cracking_speed, cs, report>>

\* the loop is over: nt / BCRYPT_CRACKING_SPEED is returned
TtcReturn ==
    /\ pc = "ttc_loop"
    /\ ~TtcLoopContinues(ti, length)
    /\ cracking_speed' = DivSmall(nt, BCRYPT_CRACKING_SPEED)
    /\ pc' = "cast"
    /\ UNCHANGED <<command, args, analyzeInput, length, charset, rng,
                   pool, password, i, nt, ti, wrapped, cs, panicMsg,
                   report>>

\* main: let cs = Duration::from_secs(cracking_speed as u64); then the
\* password and the duration are printed
MainCast ==
    /\ pc = "cast"
    /\ cs' = AsU64(cracking_speed)
    /\ pc' = "done"
    /\ UNCHANGED <<command, args, analyzeInput, length, charset, rng,
                   pool, password, i, nt, ti, wrapped, cracking_speed,
                   panicMsg,
                   report>>

\* utils::analyze_password: its body is todo!(), which panics
AnalyzePassword ==
    /\ pc = "analyze_password"
    /\ pc' = "panic"
    /\ panicMsg' = "not yet implemented"
    /\ UNCHANGED <<command, args, analyzeInput, length, charset, rng,
                   pool, password, i, nt, ti, wrapped, cracking_speed, cs,
                   report>>

Next ==
    \/ SetLength
    \/ CreateCharset
    \/ ComputePasswordEntry
    \/ GenIteration
    \/ GenReturn
    \/ TtcEntry
    \/ TtcIteration
    \/ TtcReturn
    \/ MainCast
    \/ AnalyzePassword

Spec == Init /\ [][Next]_vars

----------------------------------------------------------------------------
(* Properties *)

\* the run is past the call of set_length
LengthSet == command = "generate" /\ pc # "set_length"

\* the run is past the call of create_charset
CharsetBuilt == LengthSet /\ pc # "create_charset"

\* the run is inside or past the generation loop
Generating == CharsetBuilt /\ pc # "compute_password"

\* compute_password has returned
Generated == Generating /\ pc # "gen_loop" /\ panicMsg # "Charset vuoto"

Flag(b) == IF b THEN 1 ELSE 0

\* C1: for every requested length r, set_length returns r unchanged when
\* 8 <= r <= 128 and exactly 16 otherwise (never the nearest bound); it
\* never fails, so the validated length always lies in [8,128].
C1_SetLength ==
    /\ pc = "set_length" => ENABLED SetLength
    /\ LengthSet =>
          /\ length = IF 8 <= args.length /\ args.length <= 128
                      THEN args.length ELSE 16
          /\ length \in 8..128

\* set_length has replaced a too large request by the default
C1_Witness == pc = "create_charset" /\ args.length = 129 /\ length = 16

\* the safety part of C2: inside the loop the counter never passes the
\* validated length and counts the characters pushed; the loop does not
\* panic; the password returned has exactly the validated length
C2_Lengths ==
    LET validated == IF 8 <= args.length /\ args.length <= 128
                     THEN args.length ELSE 16
    IN  /\ pc = "gen_loop" => (i <= validated /\ Len(password) = i)
        /\ Generating => panicMsg # "Charset vuoto"
        /\ Generated => Len(password) = validated

\* the progress part of C2: every step that stays in the loop pushes one
\* character and counts it, and the step that leaves the loop is taken
\* exactly when the counter has reached the validated length, so the loop
\* ends after that many steps
C2_Progress ==
    /\ (pc = "gen_loop" /\ pc' = "gen_loop") =>
           (i' = i + 1 /\ Len(password') = Len(password) + 1 /\ i' <= length)
    /\ (pc = "gen_loop" /\ pc' # "gen_loop") =>
           (pc' = "compute_time_to_crack" /\ i = length /\ password' = password)

\* C2: for every flag combination, generation terminates and returns a
\* password of exactly the validated length: L for a requested L in
\* [8,128], 16 for any other request.
C2_PasswordLength == []C2_Lengths /\ [][C2_Progress]_vars

\* a password of the default length has been returned for a request of 129
C2_Witness ==
    /\ pc = "compute_time_to_crack"
    /\ args.length = 129
    /\ Len(password) = 16

\* C3: the password returned by generate contains at least one character of
\* each enabled category: a lowercase letter always, an uppercase letter, a
\* special symbol and a digit whenever the corresponding flag is set.
C3_EveryEnabledCategory ==
    Generated =>
        /\ Range(password) \cap Range(CHARS) # {}
        /\ args.uppercase_chars =>
               Range(password) \cap Range(UPPERCASE_CHARS) # {}
        /\ args.special_chars =>
               Range(password) \cap Range(SPECIAL_CHARS) # {}
        /\ args.numbers => Range(password) \cap Range(NUMBERS) # {}

\* C4: create_charset returns the 26 lowercase letters, then the 26
\* uppercase letters iff uppercase_chars, then the 15 special symbols
\* !@#$%^&*_-+=<>? iff special_chars, then the 10 digits iff numbers, in
\* that order: 26 + 26*u + 15*s + 10*n characters, no duplicates.
C4_Charset ==
    CharsetBuilt =>
        LET u == Flag(args.uppercase_chars)
            sp == Flag(args.special_chars)
            n == Flag(args.numbers)
        IN  /\ Len(CHARS) = 26 /\ Len(UPPERCASE_CHARS) = 26
            /\ Len(SPECIAL_CHARS) = 15 /\ Len(NUMBERS) = 10
            /\ Len(charset) = 26 + 26 * u + 15 * sp + 10 * n
            /\ SubSeq(charset, 1, 26) = CHARS
            /\ u = 1 => SubSeq(charset, 27, 52) = UPPERCASE_CHARS
            /\ sp = 1 =>
                   SubSeq(charset, 27 + 26 * u, 41 + 26 * u) =
                       << "!", "@", "#", "$", "%", "^", "&", "*", "_", "-",
                          "+", "=", "<", ">", "?" >>
            /\ n = 1 =>
                   SubSeq(charset, 27 + 26 * u + 15 * sp,
                                   36 + 26 * u + 15 * sp) = NUMBERS
            /\ Cardinality(Range(charset)) = Len(charset)

\* the charset of all four categories has been built
C4_Witness ==
    /\ pc = "compute_password"
    /\ args.uppercase_chars /\ args.special_chars /\ args.numbers
    /\ Len(charset) = 77

\* C5: every character of the password belongs to the merged charset of the
\* enabled categories, so no character of a disabled category appears (only
\* lowercase letters without optional flags); at every iteration of the loop
\* the shuffled pool is a permutation of the charset built by create_charset.
C5_PasswordInCharset ==
    Generating =>
        /\ Len(pool) = Len(charset)
        /\ Range(pool) = Range(charset)
        /\ Cardinality(Range(pool)) = Len(pool)
        /\ Range(password) \subseteq Range(charset)
        /\ ~args.uppercase_chars =>
               Range(password) \cap Range(UPPERCASE_CHARS) = {}
        /\ ~args.special_chars =>
               Range(password) \cap Range(SPECIAL_CHARS) = {}
        /\ ~args.numbers => Range(password) \cap Range(NUMBERS) = {}
        /\ (~args.uppercase_chars /\ ~args.special_chars /\ ~args.numbers) =>
               Range(password) \subseteq Range(CHARS)

\* a password of 8 lowercase letters has been returned by a run without
\* optional flags, whose pool has been shuffled out of its built order
C5_Witness ==
    /\ pc = "compute_time_to_crack"
    /\ ~args.uppercase_chars /\ ~args.special_chars /\ ~args.numbers
    /\ Len(password) = 8
    /\ pool # charset

\* C6: analyze fails only on the empty string, and then with
\* EmptyPasswordError; for every non-empty password it returns a report
\* instead of failing or aborting.
C6_AnalyzeFailsOnlyOnEmpty ==
    (command = "analyze" /\ pc # "analyze_password") =>
        IF Len(analyzeInput) = 0
        THEN pc = "error" /\ panicMsg = "EmptyPasswordError"
        ELSE pc = "done"

\* the categories of the analyzer: the pools of the charset builder
C7_Categories == {CHARS, UPPERCASE_CHARS, NUMBERS, SPECIAL_CHARS}

RECURSIVE C7_SumLen(_)
C7_SumLen(pools) ==
    IF pools = {} THEN 0
    ELSE LET q == CHOOSE q \in pools : TRUE
         IN  Len(q) + C7_SumLen(pools \ {q})

\* sum of the sizes of the categories that have a character in p
C7_PoolSize(p) ==
    C7_SumLen({q \in C7_Categories : Range(q) \cap Range(p) # {}})

\* exact base ^ exp, without its high zero limbs
RECURSIVE C7_PowExact(_, _)
C7_PowExact(base, exp) ==
    IF exp = 0 THEN <<1>> ELSE Norm(MulSmall(C7_PowExact(base, exp - 1), base))

\* C7: for every non-empty password p, analyze reports poolSize = the sum of
\* the sizes of the categories present in p, and keyspace = poolSize ^
\* length(p).
C7_AnalyzeReport ==
    (command = "analyze" /\ pc # "analyze_password" /\ Len(analyzeInput) > 0) =>
        /\ pc = "done"
        /\ report = [poolSize |-> C7_PoolSize(analyzeInput),
                     keyspace |-> C7_PowExact(C7_PoolSize(analyzeInput),
                                              Len(analyzeInput))]

\* C8: for every combination of the flags the pool the generator draws from
\* is non-empty (it always contains the 26 lowercase letters), so the
\* expect("Charset vuoto") / unwrap on choose never fails.
C8_NonEmptyPool ==
    /\ panicMsg # "Charset vuoto"
    /\ Generating =>
          /\ Len(pool) >= 26
          /\ Range(CHARS) \subseteq Range(pool)
          /\ choose(pool, rng).some

\* a character has been drawn from the pool of a run without optional flags
C8_Witness ==
    /\ pc = "gen_loop"
    /\ i > 0
    /\ ~args.uppercase_chars /\ ~args.special_chars /\ ~args.numbers
    /\ Len(pool) = 26

\* one step of the sum c^1 + ... + c^n in Horner form: acc -> (acc + 1) * c
C9_HornerStep(acc, c) ==
    LET r == Norm(MulSmall(AddExact(acc, ToLimbs(1, Len(acc))), c))
    IN  IF Len(r) = 0 THEN <<0>> ELSE r

\* n Horner steps from acc
RECURSIVE C9_Horner(_, _, _)
C9_Horner(acc, c, n) ==
    IF n = 0 \/ Len(acc) = 0 THEN acc
    ELSE IF n = 1 THEN C9_HornerStep(acc, c)
    ELSE C9_Horner(C9_Horner(acc, c, n \div 2), c, n - (n \div 2))

\* exact c^1 + c^2 + ... + c^n
C9_SumPowers(c, n) == C9_Horner(<<0>>, c, n)

\* C9: compute_time_to_crack(c, n) returns floor((c^1 + ... + c^n) / 9000),
\* and BCRYPT_CRACKING_SPEED equals 9000.
C9_TimeToCrack ==
    (command = "generate" /\ pc \in {"cast", "done"}) =>
        /\ Norm(cracking_speed) =
               Norm(DivSmall(C9_SumPowers(Len(charset), length), 9000))
        /\ BCRYPT_CRACKING_SPEED = 9000

\* C10: the estimate never overflows silently: each power, and the running
\* sum, fit in 128 bits, and the number of seconds fits in the 64 bits it is
\* cast to in main.
C10_NoOverflow ==
    /\ ~wrapped
    /\ panicMsg \notin {"attempt to multiply with overflow",
                        "attempt to add with overflow"}
    /\ pc = "done" => Norm(cs) = Norm(cracking_speed)

====
